---- MODULE Spec2Model ----
(***************************************************************************)
(* Model of src/home_loan.py: one run of the Streamlit script, from the    *)
(* widget values to the last metric.                                       *)
(*                                                                         *)
(* Numbers.  The script computes in Python floats.  Here every amount is   *)
(* an integer number of rupees, a rate is its integer percentage, and the  *)
(* result of every multiplication by a rate and of every division is       *)
(* rounded to the nearest whole unit, as a float operation rounds to the   *)
(* nearest float.  The growth factor (1 + r) ** n is held in units of      *)
(* 1/Resolution.  Additions and subtractions are exact.                    *)
(* Overflow to a non-finite float (lines 85-91, 195-198) cannot happen     *)
(* inside the bounds and is not modelled.                                  *)
(***************************************************************************)
EXTENDS Integers, Sequences, FiniteSets

\* ------------------------------------------------------------- bounds
\* Largest loan term in years offered to the run.
MaxTerm == 2

\* ------------------------------------------------ program constants
PercentDen == 100
MonthsPerYear == 12
InterestCap == 200000
PrincipalCap == 150000

\* Units per 1.0 of the growth factor (1 + r) ** n: four decimal places.
Resolution == PercentDen * PercentDen

\* ------------------------------------------------------ input values
\* What the widgets of lines 41-54 can hold: every number_input has
\* min_value 0 (loan term: 1), so no negative value reaches the script.
HomeValues == {0, 100000, 1000000}
Deposits == {0, 100000, 1000000}
Rates == {0, 12, 36}
Terms == 1..MaxTerm
Fees == {0, 10000}
Prepayments == {0, 50000, 400000}
Frequencies == {"Yearly", "Monthly"}
Rents == {0, 20000}
RentIncreases == {0, 5}

VARIABLES
    pc,
    home_value, deposit, interest_rate, loan_term, processing_fees, prepayment,
    show_tax_benefits, compare_renting,
    validation_errors, shown_errors, metrics,
    loan_amount, monthly_payment, prepayment_frequency, prepayment_amount,
    total_payments, total_interest,
    schedule, remaining_balance, i,
    yearly_tax, total_tax_savings,
    rent, rent_increase, total_rent, current_rent, year, savings

inputs == <<home_value, deposit, interest_rate, loan_term, processing_fees,
            prepayment, show_tax_benefits, compare_renting>>
loanvars == <<loan_amount, monthly_payment, prepayment_frequency,
              prepayment_amount, total_payments, total_interest>>
loopvars == <<schedule, remaining_balance, i>>
taxvars == <<yearly_tax, total_tax_savings>>
rentvars == <<rent, rent_increase, total_rent, current_rent, year, savings>>
vars == <<pc, inputs, validation_errors, shown_errors, metrics, loanvars,
          loopvars, taxvars, rentvars>>

\* ----------------------------------------------------------- helpers
Min(a, b) == IF a < b THEN a ELSE b
Max(a, b) == IF a > b THEN a ELSE b

\* a / b rounded to the nearest integer
Div(a, b) == (a + b \div 2) \div b

\* -------------------------------------------------------- validation
ErrHomeValue == "Home value must be greater than 0"
ErrNegDeposit == "Deposit cannot be negative"
ErrDepositExceeds == "Deposit cannot exceed home value"
ErrRate == "Interest rate must be greater than 0"
ErrTerm == "Loan term must be at least 1 year"
ErrFees == "Processing fees cannot be negative"
ErrPrepayment == "Prepayment cannot be negative"
ErrLoanAmount == "Loan amount must be greater than 0. Reduce your deposit amount."
ErrRentIncrease == "Rent increase percentage cannot be negative"

\* errors.append(msg) under a condition
AppendIf(errors, cond, msg) == IF cond THEN Append(errors, msg) ELSE errors

validate_inputs(hv, dep, rate, term, fees, prepay) ==
    LET e1 == AppendIf(<<>>, hv <= 0, ErrHomeValue)
        e2 == AppendIf(e1, dep < 0, ErrNegDeposit)
        e3 == AppendIf(e2, dep > hv, ErrDepositExceeds)
        e4 == AppendIf(e3, rate <= 0, ErrRate)
        e5 == AppendIf(e4, term <= 0, ErrTerm)
        e6 == AppendIf(e5, fees < 0, ErrFees)
        e7 == AppendIf(e6, prepay < 0, ErrPrepayment)
    IN  e7

\* Where the script goes after the validation result:
\* "if validation_errors: ... st.stop()".
\* (the same without the stop)
AfterValidationContinues(errors) == "loan"
AfterValidation(errors) == IF errors # <<>> THEN "stopped" ELSE "loan"

\* ----------------------------------------------------------- payment
\* x * monthly_interest_rate, with monthly_interest_rate =
\* (interest_rate / 100) / 12
TimesMonthlyRate(x, rate) == Div(x * rate, PercentDen * MonthsPerYear)

\* (1 + monthly_interest_rate) ** n, in units of 1/Resolution
RECURSIVE Growth(_, _)
Growth(rate, n) ==
    IF n = 0 THEN Resolution
    ELSE Div(Growth(rate, n - 1) * (PercentDen * MonthsPerYear + rate),
             PercentDen * MonthsPerYear)

\* loan * (r * (1 + r) ** n) / ((1 + r) ** n - 1); loan * r is taken first
\* so that the products stay small.
MonthlyPayment(loan, rate, n) ==
    IF rate = 0 THEN Div(loan, n)
    ELSE LET g == Growth(rate, n)
         IN  Div(TimesMonthlyRate(loan, rate) * g, g - Resolution)

NumberOfPayments(term) == term * MonthsPerYear

\* "Adjust for prepayments": the per-month figure kept in prepayment_amount
PrepaymentAmount(prepay, freq) ==
    IF freq = "Yearly" THEN Div(prepay, MonthsPerYear) ELSE prepay

TotalPayments(mp, n) == mp * n
TotalInterest(tp, loan) == tp - loan

\* ---------------------------------------------------------- schedule
\* "if prepayment > 0 and i % 12 == 0: principal_payment += prepayment"
ApplyPrepayment(principal, month, prepay) ==
    IF prepay > 0 /\ month % MonthsPerYear = 0 THEN principal + prepay
    ELSE principal

\* "if principal_payment > remaining_balance"
\* (the same with the clamp left out)
ExceedsBalanceNever(principal, balance) == FALSE
ExceedsBalance(principal, balance) == principal > balance

\* "year = math.ceil(i / 12)"
YearOf(month) == (month + MonthsPerYear - 1) \div MonthsPerYear

\* "if remaining_balance <= 0: break"
\* (the same with the break left out)
PaidOffNever(balance) == FALSE
PaidOff(balance) == balance <= 0

\* "remaining_balance -= principal_payment"
\* (the same with the result of the subtraction dropped)
NewBalanceUnchanged(balance, principal) == balance
NewBalance(balance, principal) == balance - principal

\* Month with the clamp dropping the prepayment instead of capping the
\* principal at the balance.
MonthDropsPrepayment(month, bal, mp, rate, prepay) ==
    LET interest_payment == TimesMonthlyRate(bal, rate)
        computed == ApplyPrepayment(mp - interest_payment, month, prepay)
        clamp == ExceedsBalance(computed, bal)
        principal_payment == IF clamp THEN mp - interest_payment ELSE computed
        payment == IF clamp THEN principal_payment + interest_payment ELSE mp
        balance == NewBalance(bal, principal_payment)
    IN  [row |-> [Month |-> month,
                  Payment |-> payment,
                  Principal |-> principal_payment,
                  Interest |-> interest_payment,
                  RemainingBalance |-> Max(balance, 0),
                  Year |-> YearOf(month)],
         remaining_balance |-> balance,
         monthly_payment |-> payment]

\* One pass of the loop body for month `month`, entered with balance `bal`
\* and regular payment `mp`: the appended row, and the values the variables
\* remaining_balance and monthly_payment hold afterwards.
Month(month, bal, mp, rate, prepay) ==
    LET interest_payment == TimesMonthlyRate(bal, rate)
        computed == ApplyPrepayment(mp - interest_payment, month, prepay)
        clamp == ExceedsBalance(computed, bal)
        principal_payment == IF clamp THEN bal ELSE computed
        payment == IF clamp THEN principal_payment + interest_payment ELSE mp
        balance == NewBalance(bal, principal_payment)
    IN  [row |-> [Month |-> month,
                  Payment |-> payment,
                  Principal |-> principal_payment,
                  Interest |-> interest_payment,
                  RemainingBalance |-> Max(balance, 0),
                  Year |-> YearOf(month)],
         remaining_balance |-> balance,
         monthly_payment |-> payment]

\* The whole loop from month `month` on, as one function of its inputs.
RECURSIVE Amortize(_, _, _, _, _, _, _)
Amortize(month, n, bal, mp, rate, prepay, rows) ==
    IF month > n THEN rows
    ELSE LET m == Month(month, bal, mp, rate, prepay)
         IN  IF PaidOff(m.remaining_balance) THEN Append(rows, m.row)
             ELSE Amortize(month + 1, n, m.remaining_balance,
                           m.monthly_payment, rate, prepay,
                           Append(rows, m.row))

\* A whole run's schedule and total interest for prepayment `prepay`, the
\* other inputs given: lines 72-144 as a function.
RunWith(loan, rate, term, prepay) ==
    LET n == NumberOfPayments(term)
        mp == MonthlyPayment(loan, rate, n)
    IN  [schedule |-> Amortize(1, n, loan, mp, rate, prepay, <<>>),
         total_interest |-> TotalInterest(TotalPayments(mp, n), loan)]

\* --------------------------------------------------------------- tax
\* df.groupby('Year').agg({'Principal': 'sum', 'Interest': 'sum'})
RECURSIVE SumYear(_, _, _)
SumYear(rows, y, column) ==
    IF rows = <<>> THEN 0
    ELSE (IF rows[1].Year = y THEN rows[1][column] ELSE 0)
         + SumYear(Tail(rows), y, column)

Years(rows) == {rows[k].Year : k \in DOMAIN rows}

\* (the interest deduction without its cap)
InterestDeductionUncapped(x) == x
InterestDeduction(x) == Min(x, InterestCap)
PrincipalDeduction(x) == Min(x, PrincipalCap)

YearlyTax(rows) ==
    [y \in Years(rows) |->
        LET p == SumYear(rows, y, "Principal")
            n == SumYear(rows, y, "Interest")
        IN  [Principal |-> p, Interest |-> n,
             InterestDeduction |-> InterestDeduction(n),
             PrincipalDeduction |-> PrincipalDeduction(p)]]

RECURSIVE SumDeductions(_, _)
SumDeductions(tax, ys) ==
    IF ys = {} THEN 0
    ELSE LET y == CHOOSE z \in ys : TRUE
         IN  tax[y].InterestDeduction + tax[y].PrincipalDeduction
             + SumDeductions(tax, ys \ {y})

\* -------------------------------------------------------------- rent
\* "current_rent *= (1 + rent_increase / 100)"
RaiseRent(r, increase) == Div(r * (PercentDen + increase), PercentDen)

\* --------------------------------------------------------- the script
\* The state when the script starts: the widgets of lines 41-54 hold their
\* values, nothing is computed or shown yet.
Init ==
    /\ pc = "validate"
    /\ home_value \in HomeValues
    /\ deposit \in Deposits
    /\ interest_rate \in Rates
    /\ loan_term \in Terms
    /\ processing_fees \in Fees
    /\ prepayment \in Prepayments
    /\ show_tax_benefits \in BOOLEAN
    /\ compare_renting \in BOOLEAN
    /\ validation_errors = <<>>
    /\ shown_errors = <<>>
    /\ metrics = {}
    /\ loan_amount = 0
    /\ monthly_payment = 0
    /\ prepayment_frequency = "Yearly"
    /\ prepayment_amount = 0
    /\ total_payments = 0
    /\ total_interest = 0
    /\ schedule = <<>>
    /\ remaining_balance = 0
    /\ i = 0
    /\ yearly_tax = <<>>
    /\ total_tax_savings = 0
    /\ rent = 0
    /\ rent_increase = 0
    /\ total_rent = 0
    /\ current_rent = 0
    /\ year = 0
    /\ savings = 0

\* Lines 56-64: validate, show every error, stop if there is one.
Validate ==
    /\ pc = "validate"
    /\ LET errors == validate_inputs(home_value, deposit, interest_rate,
                                     loan_term, processing_fees, prepayment)
       IN  /\ validation_errors' = errors
           /\ shown_errors' = shown_errors \o errors
           /\ pc' = AfterValidation(errors)
    /\ UNCHANGED <<inputs, metrics, loanvars, loopvars, taxvars, rentvars>>

\* Lines 66-70: the loan amount, and the stop when it is not positive.
LoanAmount ==
    /\ pc = "loan"
    /\ loan_amount' = home_value - deposit
    /\ IF loan_amount' <= 0
       THEN /\ shown_errors' = Append(shown_errors, ErrLoanAmount)
            /\ pc' = "stopped"
       ELSE /\ shown_errors' = shown_errors
            /\ pc' = "payment"
    /\ UNCHANGED <<inputs, validation_errors, metrics, monthly_payment,
                   prepayment_frequency, prepayment_amount, total_payments,
                   total_interest, loopvars, taxvars, rentvars>>

\* Lines 72-91: the monthly payment.
Payment ==
    /\ pc = "payment"
    /\ monthly_payment' = MonthlyPayment(loan_amount, interest_rate,
                                         NumberOfPayments(loan_term))
    /\ pc' = "prepay"
    /\ UNCHANGED <<inputs, validation_errors, shown_errors, metrics,
                   loan_amount, prepayment_frequency, prepayment_amount,
                   total_payments, total_interest, loopvars, taxvars,
                   rentvars>>

\* Lines 93-100: the frequency radio is shown only for a positive prepayment.
AdjustPrepayment ==
    /\ pc = "prepay"
    /\ prepayment > 0
    /\ \E f \in Frequencies :
          /\ prepayment_frequency' = f
          /\ prepayment_amount' = PrepaymentAmount(prepayment, f)
    /\ pc' = "totals"
    /\ UNCHANGED <<inputs, validation_errors, shown_errors, metrics,
                   loan_amount, monthly_payment, total_payments,
                   total_interest, loopvars, taxvars, rentvars>>

NoPrepayment ==
    /\ pc = "prepay"
    /\ ~(prepayment > 0)
    /\ prepayment_amount' = 0
    /\ pc' = "totals"
    /\ UNCHANGED <<inputs, validation_errors, shown_errors, metrics,
                   loan_amount, monthly_payment, prepayment_frequency,
                   total_payments, total_interest, loopvars, taxvars,
                   rentvars>>

\* Lines 102-115: the totals and their metrics, then the loop's start.
DisplayRepayments ==
    /\ pc = "totals"
    /\ total_payments' = TotalPayments(monthly_payment,
                                       NumberOfPayments(loan_term))
    /\ total_interest' = TotalInterest(total_payments', loan_amount)
    /\ metrics' = metrics \cup {"Monthly Repayments", "Total Repayments",
                                "Total Interest"}
    /\ schedule' = <<>>
    /\ remaining_balance' = loan_amount
    /\ i' = 1
    /\ pc' = "loop"
    /\ UNCHANGED <<inputs, validation_errors, shown_errors, loan_amount,
                   monthly_payment, prepayment_frequency, prepayment_amount,
                   taxvars, rentvars>>

\* Lines 117-144: one pass of the loop body, with its break.
ScheduleMonth ==
    /\ pc = "loop"
    /\ i <= NumberOfPayments(loan_term)
    /\ LET m == Month(i, remaining_balance, monthly_payment, interest_rate,
                      prepayment)
       IN  /\ schedule' = Append(schedule, m.row)
           /\ remaining_balance' = m.remaining_balance
           /\ monthly_payment' = m.monthly_payment
           /\ IF PaidOff(m.remaining_balance)
              THEN i' = i /\ pc' = "tax"
              ELSE i' = i + 1 /\ pc' = "loop"
    /\ UNCHANGED <<inputs, validation_errors, shown_errors, metrics,
                   loan_amount, prepayment_frequency, prepayment_amount,
                   total_payments, total_interest, taxvars, rentvars>>

\* Line 117: the range is exhausted.
ScheduleEnd ==
    /\ pc = "loop"
    /\ i > NumberOfPayments(loan_term)
    /\ pc' = "tax"
    /\ UNCHANGED <<inputs, validation_errors, shown_errors, metrics, loanvars,
                   loopvars, taxvars, rentvars>>

\* Lines 156-169.
TaxBenefits ==
    /\ pc = "tax"
    /\ show_tax_benefits
    /\ yearly_tax' = YearlyTax(schedule)
    /\ total_tax_savings' = SumDeductions(yearly_tax', DOMAIN yearly_tax')
    /\ metrics' = metrics \cup {"Estimated Total Tax Savings"}
    /\ pc' = "rent"
    /\ UNCHANGED <<inputs, validation_errors, shown_errors, loanvars,
                   loopvars, rentvars>>

SkipTaxBenefits ==
    /\ pc = "tax"
    /\ ~show_tax_benefits
    /\ pc' = "rent"
    /\ UNCHANGED <<inputs, validation_errors, shown_errors, metrics, loanvars,
                   loopvars, taxvars, rentvars>>

\* Lines 172-183: the rent widgets are read, a negative increase stops the
\* run, otherwise the loop starts.
CompareRenting ==
    /\ pc = "rent"
    /\ compare_renting
    /\ \E r \in Rents, inc \in RentIncreases :
          /\ rent' = r
          /\ rent_increase' = inc
          /\ IF inc < 0
             THEN /\ shown_errors' = Append(shown_errors, ErrRentIncrease)
                  /\ pc' = "stopped"
                  /\ UNCHANGED <<total_rent, current_rent, year>>
             ELSE /\ shown_errors' = shown_errors
                  /\ total_rent' = 0
                  /\ current_rent' = r
                  /\ year' = 1
                  /\ pc' = "rentloop"
    /\ UNCHANGED <<inputs, validation_errors, metrics, loanvars, loopvars,
                   taxvars, savings>>

SkipRenting ==
    /\ pc = "rent"
    /\ ~compare_renting
    /\ pc' = "done"
    /\ UNCHANGED <<inputs, validation_errors, shown_errors, metrics, loanvars,
                   loopvars, taxvars, rentvars>>

\* RentYear with the increase applied before the year is accumulated.
RentYearRaisesFirst ==
    /\ pc = "rentloop"
    /\ year <= loan_term
    /\ current_rent' = RaiseRent(current_rent, rent_increase)
    /\ total_rent' = total_rent + current_rent' * MonthsPerYear
    /\ year' = year + 1
    /\ UNCHANGED <<pc, inputs, validation_errors, shown_errors, metrics,
                   loanvars, loopvars, taxvars, rent, rent_increase, savings>>

\* Lines 184-186: one year of rent.
RentYear ==
    /\ pc = "rentloop"
    /\ year <= loan_term
    /\ total_rent' = total_rent + current_rent * MonthsPerYear
    /\ current_rent' = RaiseRent(current_rent, rent_increase)
    /\ year' = year + 1
    /\ UNCHANGED <<pc, inputs, validation_errors, shown_errors, metrics,
                   loanvars, loopvars, taxvars, rent, rent_increase, savings>>

\* Lines 188-190.
RentMetrics ==
    /\ pc = "rentloop"
    /\ year > loan_term
    /\ savings' = total_rent - total_payments
    /\ metrics' = metrics \cup {"Total Rent Paid", "Savings by Buying"}
    /\ pc' = "done"
    /\ UNCHANGED <<inputs, validation_errors, shown_errors, loanvars,
                   loopvars, taxvars, rent, rent_increase, total_rent,
                   current_rent, year>>

Next ==
    \/ Validate
    \/ LoanAmount
    \/ Payment
    \/ AdjustPrepayment
    \/ NoPrepayment
    \/ DisplayRepayments
    \/ ScheduleMonth
    \/ ScheduleEnd
    \/ TaxBenefits
    \/ SkipTaxBenefits
    \/ CompareRenting
    \/ SkipRenting
    \/ RentYear
    \/ RentMetrics

Spec == Init /\ [][Next]_vars

\* ============================================================ claims
AfterSchedule == pc \in {"tax", "rent", "rentloop", "done"}
AfterTax == pc \in {"rent", "rentloop", "done"}
Last(rows) == rows[Len(rows)]
Range(seq) == {seq[k] : k \in DOMAIN seq}

\* Sum of a column over the rows whose index is in `ks`.
RECURSIVE ColumnSum(_, _, _)
ColumnSum(rows, ks, column) ==
    IF ks = {} THEN 0
    ELSE LET k == CHOOSE z \in ks : TRUE
         IN  rows[k][column] + ColumnSum(rows, ks \ {k}, column)

\* C1: once the schedule is produced, total_payments is the sum of the
\* Payment column of the schedule and total_interest is total_payments
\* minus the loan amount.
C1_TotalsSumSchedule ==
    AfterSchedule =>
        /\ total_payments = ColumnSum(schedule, DOMAIN schedule, "Payment")
        /\ total_interest = total_payments - loan_amount

\* C2: with a positive prepayment, a month that leaves a balance has the
\* prepayment in its principal exactly when the frequency is Monthly or, for
\* Yearly, the month is a multiple of 12.
C2_PrepaymentFollowsFrequency ==
    \A k \in DOMAIN schedule :
        (prepayment > 0 /\ schedule[k].RemainingBalance > 0) =>
            schedule[k].Principal
                - (schedule[k].Payment - schedule[k].Interest)
            = IF prepayment_frequency = "Monthly" \/ k % 12 = 0
              THEN prepayment ELSE 0

\* The constraints of the data model that the inputs violate.
ViolatedConstraints ==
    {e \in {ErrHomeValue, ErrNegDeposit, ErrDepositExceeds, ErrRate, ErrTerm,
            ErrFees, ErrPrepayment, ErrLoanAmount} :
        \/ e = ErrHomeValue /\ ~(home_value > 0)
        \/ e = ErrNegDeposit /\ ~(deposit >= 0)
        \/ e = ErrDepositExceeds /\ ~(deposit <= home_value)
        \/ e = ErrRate /\ ~(interest_rate > 0)
        \/ e = ErrTerm /\ ~(loan_term >= 1)
        \/ e = ErrFees /\ ~(processing_fees >= 0)
        \/ e = ErrPrepayment /\ ~(prepayment >= 0)
        \/ e = ErrLoanAmount /\ ~(home_value - deposit > 0)}

\* C3: once the checks are over (the run stopped or went on to the payment),
\* the errors shown are exactly the violated constraints among the eight.
C3_ReportsEveryViolation ==
    pc \notin {"validate", "loan"} =>
        Range(shown_errors) = ViolatedConstraints

\* C4: a run's schedule is no longer, and its total interest no greater,
\* than those of the run that differs only by a smaller prepayment.
C4_MorePrepaymentNoLongerNoDearer ==
    AfterSchedule =>
        \A a \in Prepayments :
            a <= prepayment =>
                LET less == RunWith(loan_amount, interest_rate, loan_term, a)
                IN  /\ Len(schedule) <= Len(less.schedule)
                    /\ total_interest <= less.total_interest

\* C4 witness: a finished run strictly shorter than the run with the middle
\* prepayment, itself strictly shorter than the run with none.
C4_Witness ==
    /\ AfterSchedule
    /\ prepayment = 400000
    /\ Len(schedule)
         < Len(RunWith(loan_amount, interest_rate, loan_term, 50000).schedule)
    /\ Len(RunWith(loan_amount, interest_rate, loan_term, 50000).schedule)
         < Len(RunWith(loan_amount, interest_rate, loan_term, 0).schedule)

\* C5: once a validation error or the loan amount error has been shown the
\* run is stopped, and no payment, schedule row, total, tax figure, rent
\* figure or metric exists.
C5_ErrorStopsRun ==
    (validation_errors # <<>> \/ ErrLoanAmount \in Range(shown_errors)) =>
        /\ pc = "stopped"
        /\ metrics = {}
        /\ monthly_payment = 0
        /\ schedule = <<>>
        /\ total_payments = 0
        /\ total_interest = 0
        /\ yearly_tax = <<>>
        /\ total_tax_savings = 0
        /\ total_rent = 0
        /\ savings = 0

\* C5 witness: a run stopped by the loan amount error, after a validation
\* that found nothing.
C5_Witness ==
    /\ pc = "stopped"
    /\ validation_errors = <<>>
    /\ shown_errors = <<ErrLoanAmount>>

\* C6: the rows are months 1..k without gaps, k at most 12 * loan_term, each
\* row in year ceil(month / 12); every row but the last leaves a positive
\* balance, a row that leaves none ends the loop, and the loop ends before
\* month 12 * loan_term only after such a row.
C6_ContiguousUntilPaidOff ==
    /\ Len(schedule) <= 12 * loan_term
    /\ \A k \in DOMAIN schedule :
          /\ schedule[k].Month = k
          /\ 12 * (schedule[k].Year - 1) < k
          /\ k <= 12 * schedule[k].Year
          /\ k < Len(schedule) => schedule[k].RemainingBalance > 0
    /\ (schedule # <<>> /\ Last(schedule).RemainingBalance <= 0)
          => pc # "loop"
    /\ (AfterSchedule /\ Len(schedule) < 12 * loan_term)
          => Last(schedule).RemainingBalance <= 0

\* C6 witness: a loop ended by a paid-off balance before the term's end.
C6_Witness ==
    /\ AfterSchedule
    /\ Len(schedule) > 12
    /\ Len(schedule) < 12 * loan_term
    /\ Last(schedule).RemainingBalance = 0

\* The indices of the rows of year y.
RowsOfYear(y) == {k \in DOMAIN schedule : schedule[k].Year = y}

RECURSIVE CappedSum(_)
CappedSum(ys) ==
    IF ys = {} THEN 0
    ELSE LET y == CHOOSE z \in ys : TRUE
         IN  Min(ColumnSum(schedule, RowsOfYear(y), "Interest"), 200000)
             + Min(ColumnSum(schedule, RowsOfYear(y), "Principal"), 150000)
             + CappedSum(ys \ {y})

\* C7: the tax table has one line per year of the schedule, with the year's
\* interest capped at 200000 and the year's principal capped at 150000; the
\* total is the sum of both over the years, at most 350000 per year.
C7_TaxFromSchedule ==
    (AfterTax /\ show_tax_benefits) =>
        LET ys == {schedule[k].Year : k \in DOMAIN schedule}
        IN  /\ DOMAIN yearly_tax = ys
            /\ \A y \in ys :
                  /\ yearly_tax[y].InterestDeduction
                       = Min(ColumnSum(schedule, RowsOfYear(y), "Interest"),
                             200000)
                  /\ yearly_tax[y].PrincipalDeduction
                       = Min(ColumnSum(schedule, RowsOfYear(y), "Principal"),
                             150000)
            /\ total_tax_savings = CappedSum(ys)
            /\ total_tax_savings <= 350000 * Cardinality(ys)

\* C7 witness: a tax table where the interest cap binds in one year and not
\* in another, and the principal cap binds in one year and not in another.
C7_Witness ==
    /\ AfterTax
    /\ show_tax_benefits
    /\ \E y, z \in DOMAIN yearly_tax :
          /\ yearly_tax[y].Interest > 200000
          /\ yearly_tax[z].Interest < 200000
    /\ \E y, z \in DOMAIN yearly_tax :
          /\ yearly_tax[y].Principal > 150000
          /\ yearly_tax[z].Principal < 150000

\* The rent of year y: the monthly rent in year 1, the previous year's rent
\* times (1 + increase / 100) afterwards, to the nearest unit.
RECURSIVE RentOfYear(_)
RentOfYear(y) ==
    IF y = 1 THEN rent
    ELSE (RentOfYear(y - 1) * (100 + rent_increase) + 50) \div 100

RECURSIVE RentThrough(_)
RentThrough(y) == IF y = 0 THEN 0 ELSE RentThrough(y - 1) + 12 * RentOfYear(y)

\* C8: in the rent loop the total is 12 times the rents of the years already
\* accumulated and the current rent is that of the year to come; the total
\* shown is the sum over exactly loan_term years.
C8_RentAccumulated ==
    /\ pc = "rentloop" =>
          /\ total_rent = RentThrough(year - 1)
          /\ current_rent = RentOfYear(year)
    /\ (pc = "done" /\ compare_renting) => total_rent = RentThrough(loan_term)

\* C8 witness: a finished comparison over several years with a rising rent,
\* the increase after the last year applied and left out of the total.
C8_Witness ==
    /\ pc = "done"
    /\ compare_renting
    /\ loan_term >= 2
    /\ rent > 0
    /\ rent_increase > 0
    /\ current_rent > RentOfYear(loan_term)
    /\ total_rent = RentThrough(loan_term)

\* The balance a row starts from.
BalanceBefore(k) ==
    IF k = 1 THEN loan_amount ELSE schedule[k - 1].RemainingBalance

\* The principal the loop computes for row k before the clamp: the regular
\* payment less the interest, plus the prepayment in a month that has one.
ComputedPrincipal(k) ==
    MonthlyPayment(loan_amount, interest_rate, 12 * loan_term)
        - schedule[k].Interest
        + (IF prepayment > 0 /\ k % 12 = 0 THEN prepayment ELSE 0)

\* C9: no row's principal exceeds the balance it starts from and no balance
\* is negative; a row whose computed principal exceeds that balance has the
\* balance as principal, leaves 0 and records principal + interest as payment.
C9_PrincipalClamped ==
    /\ remaining_balance >= 0
    /\ \A k \in DOMAIN schedule :
          /\ schedule[k].Principal <= BalanceBefore(k)
          /\ schedule[k].RemainingBalance >= 0
          /\ ComputedPrincipal(k) > BalanceBefore(k) =>
                /\ schedule[k].Principal = BalanceBefore(k)
                /\ schedule[k].RemainingBalance = 0
                /\ schedule[k].Payment
                     = schedule[k].Principal + schedule[k].Interest

\* C9 witness: a last row clamped by a prepayment, paying less than the
\* regular payment plus the prepayment.
C9_Witness ==
    /\ schedule # <<>>
    /\ prepayment > 0
    /\ Len(schedule) % 12 = 0
    /\ ComputedPrincipal(Len(schedule)) > BalanceBefore(Len(schedule))
    /\ Last(schedule).Payment
         # MonthlyPayment(loan_amount, interest_rate, 12 * loan_term)

====
